---------------------------- MODULE Spec2Model ----------------------------
(***************************************************************************)
(* A model of packaging/whl.py (rules_python): the Wheel class.            *)
(*                                                                         *)
(* Strings are sequences of one-character strings, so that split, search   *)
(* and substitution are computed character by character as the code does.  *)
(* A call's outcome is a record: [kind |-> "ok", value |-> v] for a return *)
(* and [kind |-> "raise", exc |-> e] for a raised exception.               *)
(*                                                                         *)
(* Four specifications share the module's variables:                       *)
(*   SpecIdentity      distribution / version / repository_suffix          *)
(*   SpecMetadata      metadata / name / _parse_metadata                   *)
(*   SpecDependencies  dependencies                                        *)
(*   Spec              expand, with the process umask                      *)
(***************************************************************************)
EXTENDS Naturals, Sequences, FiniteSets, TLC

VARIABLES
  path,       \* Wheel._path, a string
  op,         \* the method called last ("" before any call)
  result,     \* its outcome
  whl,        \* the archive's dist-info members, as zipfile sees them
  opened,     \* the members metadata() asked the archive for, in order
  meta,       \* the record metadata() returns, as dependencies() reads it
  extraArg,   \* the argument extra of dependencies()
  environ,    \* the environment markers are evaluated in (os_name)
  infolist,   \* whl.infolist() of expand: the archive's members
  fs,         \* the destination directory: entries [name, kind, mode, content]
  umask,      \* the process file-creation mask
  pc,         \* where expand stands
  idx,        \* expand's position in infolist
  mask,       \* the local mask of current_umask
  maskLog,    \* the masks current_umask returned during this call
  chmodded,   \* the names chmod was applied to during this call
  umaskCalls, \* os.umask calls made during this call
  callUmask,  \* the umask at this call's entry
  prevFs,     \* the destination as the call before the last one left it
  doneFs,     \* the destination as the last completed call left it
  callerTouched, \* the caller changed the umask after the first call began
  runs        \* completed expand calls

identityVars == <<path, op, result>>
metadataVars == <<whl, opened>>
dependencyVars == <<meta, extraArg, environ>>
expandVars == <<infolist, fs, umask, pc, idx, mask, maskLog, chmodded,
                umaskCalls, callUmask, prevFs, doneFs, callerTouched, runs>>
vars == <<identityVars, metadataVars, dependencyVars, expandVars>>

----------------------------------------------------------------------------
(* Values and strings *)

NoneVal == "None"

Ok(v) == [kind |-> "ok", value |-> v]
Raise(e) == [kind |-> "raise", exc |-> e]
NoResult == [kind |-> "none"]

SeqsUpTo(S, n) == UNION {[1..k -> S] : k \in 0..n}

Chars(s) == {s[k] : k \in 1..Len(s)}

\* s[from..] (1-based), empty when from is past the end
Tail_(s, from) == SubSeq(s, from, Len(s))

\* the positions of s holding a character of set cs
Positions(s, cs) == {k \in 1..Len(s) : s[k] \in cs}

Min(S) == CHOOSE m \in S : \A n \in S : m <= n

\* str.split(sep) for a one-character sep: never empty, one more part than
\* there are separators
RECURSIVE StrSplit(_, _)
StrSplit(s, seps) ==
  LET hits == Positions(s, seps)
  IN IF hits = {} THEN <<s>>
     ELSE LET h == Min(hits)
          IN <<SubSeq(s, 1, h - 1)>> \o StrSplit(Tail_(s, h + 1), seps)

\* re.sub('[...]', repl, s) for a character class and a one-character repl
ReSubClass(class, repl, s) ==
  [k \in 1..Len(s) |-> IF s[k] \in class THEN repl ELSE s[k]]

----------------------------------------------------------------------------
(* Identity: basename, distribution, version, repository_suffix *)

MaxPathLen == 4
PathChars == {"a", "-", ".", "+", "!", "/"}

\* os.path.basename: what follows the last "/"
basename(p) ==
  LET hits == Positions(p, {"/"})
  IN IF hits = {} THEN p
     ELSE Tail_(p, (CHOOSE m \in hits : \A n \in hits : n <= m) + 1)

\* Wheel.distribution as the prose describes it: failing on a short name
distribution_checked(p) ==
  LET parts == StrSplit(basename(p), {"-"})
  IN IF Len(parts) < 2 THEN Raise("IndexError") ELSE Ok(parts[1])

\* parts[0] of a split never fails: split returns at least one part
distribution(p) ==
  LET parts == StrSplit(basename(p), {"-"})
  IN Ok(parts[1])

\* parts[1]: IndexError when the basename holds no "-"
version(p) ==
  LET parts == StrSplit(basename(p), {"-"})
  IN IF Len(parts) < 2 THEN Raise("IndexError") ELSE Ok(parts[2])

Prefix_pypi == <<"p", "y", "p", "i", "_", "_">>

\* the character class of re.sub in repository_suffix, with "+" forgotten
EscapedChars_noplus == {"-", "."}

EscapedChars == {"-", ".", "+"}

\* 'pypi__{}_{}'.format(distribution, version), then re.sub('[-.+]', '_', .)
repository_suffix(p) ==
  LET d == distribution(p)
      v == version(p)
  IN IF d.kind = "raise" THEN d
     ELSE IF v.kind = "raise" THEN v
     ELSE Ok(ReSubClass(EscapedChars, "_",
                        Prefix_pypi \o d.value \o <<"_">> \o v.value))

Suffix_dist_info == <<".", "d", "i", "s", "t", "-", "i", "n", "f", "o">>

\* '{}-{}.dist-info'.format(distribution, version)
dist_info(p) ==
  LET d == distribution(p)
      v == version(p)
  IN IF d.kind = "raise" THEN d
     ELSE IF v.kind = "raise" THEN v
     ELSE Ok(d.value \o <<"-">> \o v.value \o Suffix_dist_info)

\* expand is not running and has not run
ExpandOff ==
  /\ infolist = <<>> /\ fs = {} /\ umask = 0 /\ pc = "off" /\ idx = 0
  /\ mask = 0 /\ maskLog = <<>> /\ chmodded = {} /\ umaskCalls = 0
  /\ callUmask = 0 /\ prevFs = {} /\ doneFs = {} /\ callerTouched = FALSE
  /\ runs = 0

InitIdentity ==
  /\ path \in SeqsUpTo(PathChars, MaxPathLen) \ {<<>>}
  /\ op = "" /\ result = NoResult
  /\ whl = NoneVal /\ opened = <<>>
  /\ meta = NoneVal /\ extraArg = NoneVal /\ environ = NoneVal
  /\ ExpandOff

CallDistribution ==
  /\ op' = "distribution" /\ result' = distribution(path)
  /\ UNCHANGED <<path, metadataVars, dependencyVars, expandVars>>

CallVersion ==
  /\ op' = "version" /\ result' = version(path)
  /\ UNCHANGED <<path, metadataVars, dependencyVars, expandVars>>

CallRepositorySuffix ==
  /\ op' = "repository_suffix" /\ result' = repository_suffix(path)
  /\ UNCHANGED <<path, metadataVars, dependencyVars, expandVars>>

CallDistInfo ==
  /\ op' = "_dist_info" /\ result' = dist_info(path)
  /\ UNCHANGED <<path, metadataVars, dependencyVars, expandVars>>

NextIdentity ==
  \/ CallDistribution
  \/ CallVersion
  \/ CallRepositorySuffix
  \/ CallDistInfo

SpecIdentity == InitIdentity /\ [][NextIdentity]_vars

----------------------------------------------------------------------------
(* Claims about the identity parser *)

Hyphens(s) == Positions(s, {"-"})

\* v is the k-th (0-based, k <= 1) hyphen-delimited segment of s, said
\* without splitting: it holds no hyphen, and sits at the start of s (k = 0)
\* or right after the first hyphen (k = 1), followed by a hyphen or the end
IsSegment(v, k, s) ==
  LET start == IF k = 0 THEN 1 ELSE Min(Hyphens(s)) + 1
  IN /\ Hyphens(v) = {}
     /\ start + Len(v) - 1 <= Len(s)
     /\ v = SubSeq(s, start, start + Len(v) - 1)
     /\ (start + Len(v) <= Len(s) => s[start + Len(v)] = "-")

\* C7 as stated: distribution and version both fail on a basename of fewer
\* than two hyphen-delimited segments, and otherwise return segments 0 and 1.
C7_AsStated ==
  op \in {"distribution", "version"} =>
    IF Cardinality(Hyphens(basename(path))) + 1 < 2
    THEN result.kind = "raise"
    ELSE /\ result.kind = "ok"
         /\ IsSegment(result.value, IF op = "version" THEN 1 ELSE 0,
                      basename(path))

\* C7 amended: version fails (IndexError) exactly when the basename has fewer
\* than two hyphen-delimited segments and otherwise returns segment 1;
\* distribution never fails and returns segment 0 of any basename.
C7_VersionFailsDistributionTotal ==
  /\ op = "version" =>
       IF Hyphens(basename(path)) = {}
       THEN result = Raise("IndexError")
       ELSE result.kind = "ok" /\ IsSegment(result.value, 1, basename(path))
  /\ op = "distribution" =>
       result.kind = "ok" /\ IsSegment(result.value, 0, basename(path))

C7_Witness ==
  /\ op = "distribution" /\ result.kind = "ok"
  /\ Hyphens(basename(path)) = {} /\ Len(basename(path)) > 0
  /\ Len(path) > Len(basename(path))

Letters ==
  {"a", "b", "c", "d", "e", "f", "g", "h", "i", "j", "k", "l", "m",
   "n", "o", "p", "q", "r", "s", "t", "u", "v", "w", "x", "y", "z",
   "A", "B", "C", "D", "E", "F", "G", "H", "I", "J", "K", "L", "M",
   "N", "O", "P", "Q", "R", "S", "T", "U", "V", "W", "X", "Y", "Z"}
Digits == {"0", "1", "2", "3", "4", "5", "6", "7", "8", "9"}
\* the characters of [A-Za-z0-9_]
WordChars == Letters \cup Digits \cup {"_"}

----------------------------------------------------------------------------
(* Metadata: metadata, name, extras, _parse_metadata *)

MaxLines == 2

NL == "\n"

Line_Name_p == <<"N", "a", "m", "e", ":", " ", "p">>
Line_Name_empty == <<"N", "a", "m", "e", ":", " ">>
Line_Version == <<"V", ":", " ", "1">>
Line_XName_z == <<"X", "N", "a", "m", "e", ":", " ", "z", " ", "z">>
Line_Name_nospace == <<"N", "a", "m", "e", ":", "q">>
Line_name_lower == <<"n", "a", "m", "e", ":", " ", "p">>

MetadataLines ==
  {Line_Name_p, Line_Name_empty, Line_Version, Line_XName_z,
   Line_Name_nospace, Line_name_lower}

\* "\n".join(lines)
RECURSIVE JoinLines(_)
JoinLines(ls) ==
  IF Len(ls) = 0 THEN <<>>
  ELSE IF Len(ls) = 1 THEN ls[1]
  ELSE ls[1] \o <<NL>> \o JoinLines(Tail(ls))

MetadataTexts == {JoinLines(ls) : ls \in SeqsUpTo(MetadataLines, MaxLines)}

\* the literal part of the pattern 'Name: (.*)'
NamePattern == <<"N", "a", "m", "e", ":", " ">>

\* where the literal part of the pattern occurs in content
PatternHits(content) ==
  {k \in 1..Len(content) :
     /\ k + Len(NamePattern) - 1 <= Len(content)
     /\ SubSeq(content, k, k + Len(NamePattern) - 1) = NamePattern}

\* (.*): the longest run of characters other than "\n" from position from
DotStar(content, from) ==
  LET stops == {k \in from..Len(content) : content[k] = NL}
  IN IF stops = {} THEN Tail_(content, from)
     ELSE SubSeq(content, from, Min(stops) - 1)

\* name_pattern.match(content): a match at the start of content only
name_pattern_match(content) ==
  IF 1 \in PatternHits(content)
  THEN Ok(DotStar(content, 1 + Len(NamePattern)))
  ELSE Ok(NoneVal)

\* name_pattern.search(content): the leftmost match anywhere, or None
name_pattern_search(content) ==
  IF PatternHits(content) = {} THEN Ok(NoneVal)
  ELSE Ok(DotStar(content, Min(PatternHits(content)) + Len(NamePattern)))

\* { 'name': name_pattern.search(content).group(1) }; None has no group
parse_metadata(content) ==
  LET m == name_pattern_search(content)
  IN IF m.value = NoneVal THEN Raise("AttributeError")
     ELSE Ok([name |-> m.value])

\* dict.get(key, default)
DictGet(d, key, default) == IF key \in DOMAIN d THEN d[key] ELSE default

\* the decoded metadata.json records of the model
RichRecords ==
  {[name |-> <<"p">>, extras |-> <<"x">>],
   [extras |-> <<>>],
   [name |-> <<"q">>]}

\* a member of the archive: absent, unreadable, not UTF-8, or its text; the
\* text of metadata.json is valid JSON, with the record it decodes to, or not
JsonMembers ==
  {[state |-> "absent"], [state |-> "badcrc"], [state |-> "notutf8"],
   [state |-> "text", text |-> [valid |-> FALSE]]}
  \cup {[state |-> "text", text |-> [valid |-> TRUE, record |-> r]] :
          r \in RichRecords}
FlatMembers ==
  {[state |-> "absent"], [state |-> "badcrc"], [state |-> "notutf8"]}
  \cup {[state |-> "text", text |-> t] : t \in MetadataTexts}

\* whl.open(name) then f.read().decode("utf-8")
ReadMember(m) ==
  CASE m.state = "absent" -> Raise("KeyError")
    [] m.state = "badcrc" -> Raise("BadZipFile")
    [] m.state = "notutf8" -> Raise("UnicodeDecodeError")
    [] OTHER -> Ok(m.text)

\* json.loads
json_loads(text) ==
  IF text.valid THEN Ok(text.record) ELSE Raise("JSONDecodeError")

\* an except clause that catches every exception
ExceptAny(e) == TRUE

\* except KeyError
ExceptKeyError(e) == e = "KeyError"

\* Wheel.metadata: the outcome and the members it asked the archive for
metadata_call(p, w) ==
  IF w.zip = "bad" THEN [out |-> Raise("BadZipFile"), opened |-> <<>>]
  ELSE IF dist_info(p).kind = "raise"
  THEN [out |-> dist_info(p), opened |-> <<>>]
  ELSE
    LET rich == ReadMember(w.json)
        decoded == IF rich.kind = "ok" THEN json_loads(rich.value) ELSE rich
        flat == ReadMember(w.flat)
    IN IF decoded.kind = "ok"
       THEN [out |-> decoded, opened |-> <<"metadata.json">>]
       ELSE IF ~ExceptKeyError(decoded.exc)
       THEN [out |-> decoded, opened |-> <<"metadata.json">>]
       ELSE [out |-> IF flat.kind = "ok" THEN parse_metadata(flat.value)
                     ELSE flat,
             opened |-> <<"metadata.json", "METADATA">>]

metadata(p, w) == metadata_call(p, w).out

\* self.metadata().get('name')
name(p, w) ==
  LET m == metadata(p, w)
  IN IF m.kind = "raise" THEN m ELSE Ok(DictGet(m.value, "name", NoneVal))

\* self.metadata().get('extras', [])
extras(p, w) ==
  LET m == metadata(p, w)
  IN IF m.kind = "raise" THEN m ELSE Ok(DictGet(m.value, "extras", <<>>))

Path_valid == <<"a", "-", "1", "-", "x">>
Path_short == <<"a">>

InitMetadata ==
  /\ path \in {Path_valid, Path_short}
  /\ whl \in [zip : {"ok", "bad"}, json : JsonMembers, flat : FlatMembers]
  /\ op = "" /\ result = NoResult /\ opened = <<>>
  /\ meta = NoneVal /\ extraArg = NoneVal /\ environ = NoneVal
  /\ ExpandOff

CallMetadata ==
  /\ op' = "metadata"
  /\ result' = metadata(path, whl)
  /\ opened' = metadata_call(path, whl).opened
  /\ UNCHANGED <<path, whl, dependencyVars, expandVars>>

CallName ==
  /\ op' = "name"
  /\ result' = name(path, whl)
  /\ opened' = metadata_call(path, whl).opened
  /\ UNCHANGED <<path, whl, dependencyVars, expandVars>>

CallExtras ==
  /\ op' = "extras"
  /\ result' = extras(path, whl)
  /\ opened' = metadata_call(path, whl).opened
  /\ UNCHANGED <<path, whl, dependencyVars, expandVars>>

\* _parse_metadata on the text of the METADATA member
CallParseMetadata ==
  /\ whl.flat.state = "text"
  /\ op' = "_parse_metadata"
  /\ result' = parse_metadata(whl.flat.text)
  /\ opened' = <<>>
  /\ UNCHANGED <<path, whl, dependencyVars, expandVars>>

NextMetadata ==
  \/ CallMetadata
  \/ CallName
  \/ CallExtras
  \/ CallParseMetadata

SpecMetadata == InitMetadata /\ [][NextMetadata]_vars

----------------------------------------------------------------------------
(* Claims about the metadata extractor *)

InSeq(x, s) == \E k \in 1..Len(s) : s[k] = x

\* C4: metadata() opens METADATA only when metadata.json is not found; a
\* present, decodable metadata.json is the only member consulted and its
\* record is returned; any other error reading it is the call's failure and
\* METADATA is not opened.
C4_FlatOnlyWhenRichNotFound ==
  (op = "metadata" /\ whl.zip = "ok" /\ path = Path_valid) =>
    /\ InSeq("METADATA", opened) <=> whl.json.state = "absent"
    /\ (whl.json.state = "text" /\ whl.json.text.valid) =>
         (result = Ok(whl.json.text.record) /\ opened = <<"metadata.json">>)
    /\ (whl.json.state \in {"badcrc", "notutf8"}
        \/ (whl.json.state = "text" /\ ~whl.json.text.valid)) =>
         (result.kind = "raise" /\ opened = <<"metadata.json">>)

C4_Witness ==
  /\ op = "metadata" /\ whl.zip = "ok" /\ path = Path_valid
  /\ whl.json.state = "badcrc" /\ whl.flat.state = "text"
  /\ PatternHits(whl.flat.text) # {}
  /\ result.kind = "raise" /\ ~InSeq("METADATA", opened)

\* pattern occurs in line l
LineHits(l) == PatternHits(l) # {}

\* C5: flat decoding returns {name: captured text} of the first line of the
\* text in which 'Name: (.*)' matches (the rest of that line after the first
\* "Name: "), and fails when no line of the text matches.
C5_FlatDecoding ==
  (\/ op = "_parse_metadata"
   \/ /\ op = "metadata" /\ whl.zip = "ok" /\ path = Path_valid
      /\ whl.json.state = "absent" /\ whl.flat.state = "text") =>
    LET ls == StrSplit(whl.flat.text, {NL})
        matching == {j \in 1..Len(ls) : LineHits(ls[j])}
    IN IF matching = {}
       THEN result.kind = "raise"
       ELSE LET l == ls[Min(matching)]
            IN result = Ok([name |-> Tail_(l, Min(PatternHits(l))
                                              + Len(NamePattern))])

C5_Witness ==
  /\ op = "_parse_metadata" /\ result.kind = "ok"
  /\ ~LineHits(StrSplit(whl.flat.text, {NL})[1])
  /\ Len(StrSplit(whl.flat.text, {NL})) >= 2
  /\ Len(result.value.name) > 0

----------------------------------------------------------------------------
(* Dependencies *)

MaxGroups == 2

\* the printable ASCII characters in code-point order, from 32 (space);
\* "grave" stands for the grave accent (96), which a string cannot hold
Ascii ==
  <<
    " ", "!", "\"", "#", "$", "%", "&", "'", "(", ")", "*", "+",
    ",", "-", ".", "/", "0", "1", "2", "3", "4", "5", "6", "7",
    "8", "9", ":", ";", "<", "=", ">", "?", "@", "A", "B", "C",
    "D", "E", "F", "G", "H", "I", "J", "K", "L", "M", "N", "O",
    "P", "Q", "R", "S", "T", "U", "V", "W", "X", "Y", "Z", "[",
    "\\", "]", "^", "_", "grave", "a", "b", "c", "d", "e", "f", "g",
    "h", "i", "j", "k", "l", "m", "n", "o", "p", "q", "r", "s",
    "t", "u", "v", "w", "x", "y", "z", "{", "|", "}", "~"
  >>

OrdTable == [c \in Chars(Ascii) |-> 31 + (CHOOSE k \in 1..Len(Ascii) : Ascii[k] = c)]

\* ord(c)
Ord(c) == OrdTable[c]

\* a < b for str: at the first difference the smaller code point wins, and a
\* proper prefix is smaller
StrLess(a, b) ==
  LET n == IF Len(a) < Len(b) THEN Len(a) ELSE Len(b)
      diff == {k \in 1..n : a[k] # b[k]}
  IN IF diff = {} THEN Len(a) < Len(b)
     ELSE Ord(a[Min(diff)]) < Ord(b[Min(diff)])

\* sorted(S) of a set of str
RECURSIVE sorted(_)
sorted(S) ==
  IF S = {} THEN <<>>
  ELSE LET m == CHOOSE x \in S : \A y \in S : x = y \/ StrLess(x, y)
       IN <<m>> \o sorted(S \ {m})

Req_foo_ge == <<"f", "o", "o", ">", "=", "1", ".", "0">>
Req_bar == <<"b", "a", "r">>
Req_foo_eq == <<"f", "o", "o", "=", "=", "2", ".", "0">>
Req_bar_x == <<"b", "a", "r", "[", "x", "]">>
Req_foo == <<"f", "o", "o">>
Req_baz_paren == <<"b", "a", "z", " ", "(", ">", "1", ")">>
Req_ab_ne == <<"a", "b", "!", "=", "1">>

\* the requires lists of the model's requirement groups
RequiresLists ==
  {<<Req_foo_ge, Req_bar>>,
   <<Req_foo_eq, Req_bar_x>>,
   <<Req_foo, Req_baz_paren, Req_ab_ne>>}

Marker_posix == "os_name == 'posix'"
Marker_nt == "os_name == 'nt'"
Marker_bad == "os_name ==="
Marker_empty == ""

\* a requirement group; NoneVal stands for a key that is absent or null,
\* which dict.get() does not tell apart
Groups ==
  [extra : {NoneVal, "x"},
   environment : {NoneVal, Marker_empty, Marker_posix, Marker_nt, Marker_bad},
   requires : RequiresLists]

ExtraArgs == {NoneVal, "x", "y"}
Environs == {"posix", "nt"}

\* an evaluator that answers False for a marker it cannot parse
evaluate_marker_total(marker, env) ==
  CASE marker = Marker_posix -> Ok(env = "posix")
    [] marker = Marker_nt -> Ok(env = "nt")
    [] OTHER -> Ok(FALSE)

\* pkg_resources.evaluate_marker: the marker's value in the current
\* environment; SyntaxError for a marker that is not valid
evaluate_marker(marker, env) ==
  CASE marker = Marker_posix -> Ok(env = "posix")
    [] marker = Marker_nt -> Ok(env = "nt")
    [] OTHER -> Raise("SyntaxError")

\* the truth value of requirement.get('environment')
Truthy(marker) == marker # NoneVal /\ marker # ""

\* a group of no extra also serves a named extra
ExtraDiffers_lenient(groupExtra, extra) ==
  groupExtra # extra /\ groupExtra # NoneVal

\* requirement.get('extra') != extra
ExtraDiffers(groupExtra, extra) == groupExtra # extra

\* the class of re.split in dependencies with "=" forgotten
SplitChars_noeq == {" ", ">", "<", "(", ")"}

\* the class of re.split('[ ><=()]', entry)
SplitChars == {" ", ">", "<", "=", "(", ")"}

\* re.split('[ ><=()]', entry)[0]
BareName(entry) == StrSplit(entry, SplitChars)[1]

\* the loop of dependencies from group k on, with the set built so far
RECURSIVE DependencyLoop(_, _, _, _, _)
DependencyLoop(run_requires, k, extra, env, dependency_set) ==
  IF k > Len(run_requires) THEN Ok(dependency_set)
  ELSE
    LET requirement == run_requires[k]
        marker == requirement.environment
        ev == evaluate_marker(marker, env)
    IN IF ExtraDiffers(requirement.extra, extra)
       THEN DependencyLoop(run_requires, k + 1, extra, env, dependency_set)
       ELSE IF Truthy(marker) /\ ev.kind = "raise" THEN ev
       ELSE IF Truthy(marker) /\ ~ev.value
       THEN DependencyLoop(run_requires, k + 1, extra, env, dependency_set)
       ELSE DependencyLoop(run_requires, k + 1, extra, env,
              dependency_set \cup
                {BareName(requirement.requires[j]) :
                   j \in 1..Len(requirement.requires)})

\* Wheel.dependencies on the record metadata() returned
dependencies(m, extra, env) ==
  LET looped == DependencyLoop(DictGet(m, "run_requires", <<>>), 1, extra,
                               env, {})
  IN IF looped.kind = "raise" THEN looped ELSE Ok(sorted(looped.value))

\* rich-form records: with run_requires, and one without the key
MetadataRecords ==
  {[name |-> <<"p">>]}
  \cup {[name |-> <<"p">>, run_requires |-> gs] : gs \in SeqsUpTo(Groups, MaxGroups)}

InitDependencies ==
  /\ meta \in MetadataRecords
  /\ extraArg \in ExtraArgs
  /\ environ \in Environs
  /\ path = Path_valid /\ op = "" /\ result = NoResult
  /\ whl = NoneVal /\ opened = <<>>
  /\ ExpandOff

CallDependencies ==
  /\ op' = "dependencies"
  /\ result' = dependencies(meta, extraArg, environ)
  /\ UNCHANGED <<path, metadataVars, dependencyVars, expandVars>>

NextDependencies == CallDependencies

SpecDependencies == InitDependencies /\ [][NextDependencies]_vars

----------------------------------------------------------------------------
(* Claims about the dependency resolver *)

TheGroups == DictGet(meta, "run_requires", <<>>)

\* the group's extra equals the requested extra exactly
Matches(g) == g.extra = extraArg

\* the group's marker is absent (or empty) or evaluates true
MarkerHolds(g) ==
  \/ g.environment \in {NoneVal, Marker_empty}
  \/ evaluate_marker(g.environment, environ) = Ok(TRUE)

\* the leading token of a requirement string: what precedes its first
\* character among space < > = ( )
LeadingToken(e) ==
  LET stops == {k \in 1..Len(e) : e[k] \in {" ", "<", ">", "=", "(", ")"}}
  IN IF stops = {} THEN e ELSE SubSeq(e, 1, Min(stops) - 1)

Contributed ==
  UNION {{LeadingToken(TheGroups[k].requires[j]) :
            j \in 1..Len(TheGroups[k].requires)} :
         k \in {k \in 1..Len(TheGroups) :
                  Matches(TheGroups[k]) /\ MarkerHolds(TheGroups[k])}}

Ascending(v) == \A a, b \in 1..Len(v) : a < b => StrLess(v[a], v[b])

\* C1: dependencies returns exactly the lexically ascending, duplicate-free
\* sequence of the leading tokens of the requirements of the groups whose
\* extra equals the requested one and whose marker is absent or true; other
\* groups contribute nothing, and an extra no group has yields <<>>.
C1_DependenciesExact ==
  (op = "dependencies" /\ result.kind = "ok") =>
    /\ Ascending(result.value)
    /\ Chars(result.value) = Contributed
    /\ (\A k \in 1..Len(TheGroups) : ~Matches(TheGroups[k])) =>
         result.value = <<>>

C1_Witness ==
  /\ op = "dependencies" /\ result.kind = "ok"
  /\ Len(TheGroups) = 2 /\ extraArg = NoneVal
  /\ TheGroups[1].requires = <<Req_foo_eq, Req_bar_x>>
  /\ TheGroups[2].requires = <<Req_foo, Req_baz_paren, Req_ab_ne>>
  /\ Matches(TheGroups[1]) /\ Matches(TheGroups[2])
  /\ TheGroups[1].environment = Marker_nt /\ environ = "nt"
  /\ TheGroups[2].environment = NoneVal
  /\ Len(result.value) = 4

QualifierChars == {"[", "]", "<", ">", "=", "!", "~", "(", ")", " ", ";", ","}

\* C2 as stated: every element returned is a bare distribution name, with
\* version and extras qualifiers stripped, one per distinct name.
C2_AsStated ==
  (op = "dependencies" /\ result.kind = "ok") =>
    /\ \A k \in 1..Len(result.value) :
         Chars(result.value[k]) \cap QualifierChars = {}
    /\ \A a, b \in 1..Len(result.value) : a # b => result.value[a] # result.value[b]

\* C2 amended: every element returned is the leading token of a requirement
\* string, cut at its first character among space < > = ( ): it holds none
\* of these six characters, an extras qualifier "[x]" is kept, and there is
\* one element per distinct leading token.
C2_LeadingTokensOnly ==
  (op = "dependencies" /\ result.kind = "ok") =>
    /\ \A k \in 1..Len(result.value) :
         /\ Chars(result.value[k]) \cap {" ", "<", ">", "=", "(", ")"} = {}
         /\ \E g \in 1..Len(TheGroups) :
              \E j \in 1..Len(TheGroups[g].requires) :
                LET e == TheGroups[g].requires[j]
                    n == Len(result.value[k])
                IN /\ n <= Len(e)
                   /\ SubSeq(e, 1, n) = result.value[k]
                   /\ (n < Len(e) => e[n + 1] \in {" ", "<", ">", "=", "(", ")"})
    /\ \A a, b \in 1..Len(result.value) : a # b => result.value[a] # result.value[b]
    /\ \A g \in 1..Len(TheGroups) :
         (Matches(TheGroups[g]) /\ MarkerHolds(TheGroups[g])
          /\ InSeq(Req_bar_x, TheGroups[g].requires)) =>
           InSeq(Req_bar_x, result.value)

C2_Witness ==
  /\ op = "dependencies" /\ result.kind = "ok"
  /\ InSeq(Req_bar_x, result.value) /\ InSeq(Req_bar, result.value)
  /\ InSeq(Req_foo, result.value) /\ Len(result.value) = 3

\* a group whose marker cannot be evaluated
Unevaluable(g) == g.environment = Marker_bad

\* C3 as stated: with a group whose marker cannot be evaluated, the call does
\* not fail; it returns the dependencies of the remaining groups.
C3_AsStated ==
  (op = "dependencies"
   /\ \E k \in 1..Len(TheGroups) : Unevaluable(TheGroups[k])) =>
    /\ result.kind = "ok"
    /\ Chars(result.value) = Contributed

\* C3 amended: the call fails with the evaluator's error (SyntaxError) exactly
\* when some group whose extra equals the requested one carries a marker that
\* cannot be evaluated; such a group is skipped without failure only when its
\* extra does not match, its marker then never being evaluated.
C3_UnevaluableMarkerPropagates ==
  (op = "dependencies") =>
    /\ result = Raise("SyntaxError") <=>
         \E k \in 1..Len(TheGroups) :
           Matches(TheGroups[k]) /\ Unevaluable(TheGroups[k])
    /\ result.kind \in {"ok", "raise"}

C3_Witness ==
  /\ op = "dependencies" /\ result = Raise("SyntaxError")
  /\ Len(TheGroups) = 2
  /\ Matches(TheGroups[1]) /\ MarkerHolds(TheGroups[1])
  /\ Matches(TheGroups[2]) /\ Unevaluable(TheGroups[2])

----------------------------------------------------------------------------
(* Expand: current_umask, set_extracted_file_to_default_mode_plus_executable,
   Wheel.expand *)

MaxMembers == 2
MaxRuns == 2

RECURSIVE BitAnd(_, _)
BitAnd(a, b) ==
  IF a = 0 \/ b = 0 THEN 0
  ELSE (a % 2) * (b % 2) + 2 * BitAnd(a \div 2, b \div 2)

RECURSIVE BitOr(_, _)
BitOr(a, b) ==
  IF a = 0 THEN b
  ELSE IF b = 0 THEN a
  ELSE (IF a % 2 = 1 \/ b % 2 = 1 THEN 1 ELSE 0)
       + 2 * BitOr(a \div 2, b \div 2)

\* external_attr is a 32-bit field; it is held as its two 16-bit halves,
\* hi * 2^16 + lo, and a >> 16 is the high half
Attr(hi16, lo16) == [hi |-> hi16, lo |-> lo16]
ShiftRight16(a) == a.hi

\* stat: the file-type bits of a mode, and the type of a regular file
S_IFMT == \o170000
S_IFREG == \o100000
S_IFDIR == \o040000
S_ISREG(mode) == BitAnd(mode, S_IFMT) = S_IFREG

\* the execute bits of user, group and world
ExecBits == \o111

\* external_attr of the model's members: none recorded; a regular file rw-r--r--;
\* a regular file rwxr--r--; rwxr-xr-x recorded without file-type bits; a
\* directory (with the DOS directory flag in the low half)
ExternalAttrs ==
  {Attr(0, 0),
   Attr(S_IFREG + \o644, 0),
   Attr(S_IFREG + \o744, 0),
   Attr(\o755, 0),
   Attr(S_IFDIR + \o755, 16)}

Name_dir == <<"d", "/">>
Name_file == <<"d", "/", "f">>
Name_script == <<"g">>
Name_backslash == <<"h", "\\">>
MemberNames == {Name_dir, Name_file, Name_script, Name_backslash}

\* a ZipInfo
Members == [filename : MemberNames, external_attr : ExternalAttrs]

\* the file-creation masks of the model: 000, 022 and 077
Umasks == {\o000, \o022, \o077}

\* str.endswith(c)
EndsWith(s, c) == Len(s) > 0 /\ s[Len(s)] = c

\* ZipInfo.is_dir()
is_dir(info) == EndsWith(info.filename, "/")

\* the path a member is extracted to, relative to the destination: the
\* name without its trailing "/"
TargetPath(filename) ==
  IF EndsWith(filename, "/") THEN SubSeq(filename, 1, Len(filename) - 1)
  ELSE filename

\* os.path.dirname of a relative path: <<>> when it holds no "/"
Dirname(p) ==
  LET hits == Positions(p, {"/"})
  IN IF hits = {} THEN <<>>
     ELSE SubSeq(p, 1, (CHOOSE m \in hits : \A n \in hits : n <= m) - 1)

Exists(f, p) == \E e \in f : e.name = p
Entry(f, p) == CHOOSE e \in f : e.name = p
Put(f, e) == {x \in f : x.name # e.name} \cup {e}

\* a mode with the bits of mask u cleared, as the system creates files
Masked(mode, u) == mode - BitAnd(mode, u)

\* os.makedirs / os.mkdir of a directory that does not exist yet
Mkdir(f, p, u) ==
  IF p = <<>> \/ Exists(f, p) THEN f
  ELSE Put(f, [name |-> p, kind |-> "dir", mode |-> Masked(\o777, u),
               content |-> 0])

\* open(targetpath, "wb") and the copy of the member's data: a new file gets
\* 0666 less the umask, an existing one keeps its mode and loses its content
WriteFile(f, p, data, u) ==
  Put(f, [name |-> p, kind |-> "file",
          mode |-> IF Exists(f, p) THEN Entry(f, p).mode ELSE Masked(\o666, u),
          content |-> data])

\* ZipFile._extract_member for member k, whose data is its position
ExtractMember(f, infos, k, u) ==
  LET target == TargetPath(infos[k].filename)
      withDirs == Mkdir(f, Dirname(target), u)
  IN IF is_dir(infos[k]) THEN Mkdir(withDirs, target, u)
     ELSE WriteFile(withDirs, target, k, u)

\* whl.extractall(directory): the members in archive order
RECURSIVE ExtractFrom(_, _, _, _)
ExtractFrom(f, infos, k, u) ==
  IF k > Len(infos) THEN f
  ELSE ExtractFrom(ExtractMember(f, infos, k, u), infos, k + 1, u)

extractall(f, infos, u) == ExtractFrom(f, infos, 1, u)

\* os.chmod
Chmod(f, p, mode) ==
  IF Exists(f, p) THEN Put(f, [Entry(f, p) EXCEPT !.mode = mode]) ELSE f

\* 0o777 & ~mask | 0o111: & binds tighter than |
default_mode_plus_executable(m) ==
  BitOr(BitAnd(\o777, \o777 - BitAnd(\o777, m)), ExecBits)

\* the tests of the loop without stat.S_ISREG(mode)
NeedsChmod_any_type(info) ==
  LET mode == ShiftRight16(info.external_attr)
  IN /\ ~(EndsWith(info.filename, "/") \/ EndsWith(info.filename, "\\"))
     /\ mode # 0
     /\ BitAnd(mode, ExecBits) # 0

\* the tests of expand's loop on one member: not a directory name, and
\* mode and stat.S_ISREG(mode) and mode & 0o111
NeedsChmod(info) ==
  LET mode == ShiftRight16(info.external_attr)
  IN /\ ~(EndsWith(info.filename, "/") \/ EndsWith(info.filename, "\\"))
     /\ mode # 0
     /\ S_ISREG(mode)
     /\ BitAnd(mode, ExecBits) # 0

Init ==
  /\ infolist \in SeqsUpTo(Members, MaxMembers)
  /\ umask \in Umasks
  /\ fs = {} /\ pc = "idle" /\ idx = 0 /\ mask = 0
  /\ maskLog = <<>> /\ chmodded = {} /\ umaskCalls = 0 /\ callUmask = 0
  /\ prevFs = {} /\ doneFs = {} /\ callerTouched = FALSE /\ runs = 0
  /\ path = Path_valid /\ op = "" /\ result = NoResult
  /\ whl = NoneVal /\ opened = <<>>
  /\ meta = NoneVal /\ extraArg = NoneVal /\ environ = NoneVal

othersUnchanged == UNCHANGED <<identityVars, metadataVars, dependencyVars>>

\* expand is entered: the archive is opened and extracted
Expand_extractall ==
  /\ pc = "idle" /\ runs < MaxRuns
  /\ fs' = extractall(fs, infolist, umask)
  /\ pc' = "loop" /\ idx' = 1
  /\ maskLog' = <<>> /\ chmodded' = {} /\ umaskCalls' = 0
  /\ callUmask' = umask
  /\ prevFs' = doneFs
  /\ UNCHANGED <<infolist, umask, mask, doneFs, callerTouched, runs>>
  /\ othersUnchanged

\* a member the loop passes over: continue, or the mode test fails
Expand_skip ==
  /\ pc = "loop" /\ idx <= Len(infolist)
  /\ ~NeedsChmod(infolist[idx])
  /\ idx' = idx + 1
  /\ UNCHANGED <<infolist, fs, umask, pc, mask, maskLog, chmodded,
                 umaskCalls, callUmask, prevFs, doneFs, callerTouched, runs>>
  /\ othersUnchanged

\* the mask read once per call: a later member reuses the first read
Expand_umask_get_once ==
  /\ pc = "loop" /\ idx <= Len(infolist)
  /\ NeedsChmod(infolist[idx])
  /\ IF maskLog = <<>>
     THEN /\ mask' = umask /\ umask' = 0
          /\ umaskCalls' = umaskCalls + 1
          /\ pc' = "umask_set"
     ELSE /\ pc' = "chmod"
          /\ UNCHANGED <<mask, umask, umaskCalls>>
  /\ UNCHANGED <<infolist, fs, idx, maskLog, chmodded, callUmask, prevFs,
                 doneFs, callerTouched, runs>>
  /\ othersUnchanged

\* current_umask: mask = os.umask(0)
Expand_umask_get ==
  /\ pc = "loop" /\ idx <= Len(infolist)
  /\ NeedsChmod(infolist[idx])
  /\ mask' = umask /\ umask' = 0
  /\ umaskCalls' = umaskCalls + 1
  /\ pc' = "umask_set"
  /\ UNCHANGED <<infolist, fs, idx, maskLog, chmodded, callUmask, prevFs,
                 doneFs, callerTouched, runs>>
  /\ othersUnchanged

\* current_umask with its second os.umask call forgotten
Expand_umask_not_restored ==
  /\ pc = "umask_set"
  /\ maskLog' = Append(maskLog, mask)
  /\ pc' = "chmod"
  /\ UNCHANGED <<infolist, fs, umask, umaskCalls, idx, mask, chmodded,
                 callUmask, prevFs, doneFs, callerTouched, runs>>
  /\ othersUnchanged

\* current_umask: os.umask(mask); return mask
Expand_umask_restore ==
  /\ pc = "umask_set"
  /\ umask' = mask
  /\ umaskCalls' = umaskCalls + 1
  /\ maskLog' = Append(maskLog, mask)
  /\ pc' = "chmod"
  /\ UNCHANGED <<infolist, fs, idx, mask, chmodded, callUmask, prevFs,
                 doneFs, callerTouched, runs>>
  /\ othersUnchanged

\* os.chmod(os.path.join(directory, name), 0o777 & ~mask | 0o111)
Expand_chmod ==
  /\ pc = "chmod"
  /\ fs' = Chmod(fs, infolist[idx].filename, default_mode_plus_executable(mask))
  /\ chmodded' = chmodded \cup {infolist[idx].filename}
  /\ idx' = idx + 1 /\ pc' = "loop"
  /\ UNCHANGED <<infolist, umask, mask, maskLog, umaskCalls, callUmask,
                 prevFs, doneFs, callerTouched, runs>>
  /\ othersUnchanged

\* the loop is over: expand returns
Expand_return ==
  /\ pc = "loop" /\ idx > Len(infolist)
  /\ pc' = "idle" /\ runs' = runs + 1
  /\ doneFs' = fs
  /\ UNCHANGED <<infolist, fs, umask, idx, mask, maskLog, chmodded,
                 umaskCalls, callUmask, prevFs, callerTouched>>
  /\ othersUnchanged

\* between two calls the caller sets another file-creation mask
Caller_umask ==
  /\ pc = "idle" /\ runs < MaxRuns
  /\ \E u \in Umasks \ {umask} : umask' = u
  /\ callerTouched' = (callerTouched \/ runs >= 1)
  /\ UNCHANGED <<infolist, fs, pc, idx, mask, maskLog, chmodded, umaskCalls,
                 callUmask, prevFs, doneFs, runs>>
  /\ othersUnchanged

\* between two calls the caller empties the destination directory
Caller_rmtree ==
  /\ pc = "idle" /\ runs < MaxRuns /\ fs # {}
  /\ fs' = {}
  /\ UNCHANGED <<infolist, umask, pc, idx, mask, maskLog, chmodded,
                 umaskCalls, callUmask, prevFs, doneFs, callerTouched, runs>>
  /\ othersUnchanged

Next ==
  \/ Expand_extractall
  \/ Expand_skip
  \/ Expand_umask_get
  \/ Expand_umask_restore
  \/ Expand_chmod
  \/ Expand_return
  \/ Caller_umask
  \/ Caller_rmtree

Spec == Init /\ [][Next]_vars

----------------------------------------------------------------------------
(* Claims about the archive expander *)

\* expand has returned at least once and no call is running
Returned == pc = "idle" /\ runs >= 1

\* the stored permission bits of a member hold an execute bit
StoredExec(info) == BitAnd(info.external_attr.hi % \o10000, \o111) # 0

\* the stored mode names a regular file: its type field (the bits above the
\* twelve permission bits) is 0o10
StoredRegular(info) == info.external_attr.hi \div \o10000 = \o10

\* the members extracted to the path of entry e
MembersAt(e) ==
  {k \in 1..Len(infolist) : TargetPath(infolist[k].filename) = e.name}

\* 0o777 with the bits of umask u cleared, OR 0o111
ExecutableMode(u) == BitOr(\o777 - BitAnd(\o777, u), \o111)

\* the mode extraction gives a new entry under umask u
ExtractedDefault(e, u) ==
  IF e.kind = "dir" THEN \o777 - BitAnd(\o777, u) ELSE \o666 - BitAnd(\o666, u)

\* C8 as stated: after expand into an empty directory every extracted plain
\* file with a stored execute bit has mode (0o777 & ~umask) | 0o111, and
\* directories and files with no stored execute bit are never chmod-ed and
\* keep their extracted default mode.
C8_AsStated ==
  (Returned /\ runs = 1) =>
    \A e \in doneFs :
      IF e.kind = "file" /\ \E k \in MembersAt(e) : StoredExec(infolist[k])
      THEN e.mode = ExecutableMode(callUmask)
      ELSE e.mode = ExtractedDefault(e, callUmask) /\ e.name \notin chmodded

\* the members expand's rule selects: the name ends neither in "/" nor in
\* "\", the stored mode is that of a regular file and holds an execute bit
Selected ==
  {k \in 1..Len(infolist) :
     /\ infolist[k].filename[Len(infolist[k].filename)] \notin {"/", "\\"}
     /\ StoredRegular(infolist[k])
     /\ StoredExec(infolist[k])}

\* C8 amended: the paths chmod-ed are exactly those of the members whose name
\* ends neither in "/" nor in "\" and whose stored mode has the regular-file
\* type bits and an execute bit; each gets (0o777 & ~umask) | 0o111. Every
\* other entry (directories, files with no stored execute bit, files whose
\* stored mode has execute bits but no regular-file type, files named with a
\* trailing backslash) is never chmod-ed and, extracted into an empty
\* directory, keeps its extracted default mode.
C8_ChmodOnlyStoredRegularExecutables ==
  Returned =>
    /\ chmodded = {infolist[k].filename : k \in Selected}
    /\ \A e \in doneFs :
         e.name \in chmodded =>
           (e.kind = "file" /\ e.mode = ExecutableMode(callUmask))
    /\ runs = 1 =>
         \A e \in doneFs :
           e.name \notin chmodded => e.mode = ExtractedDefault(e, callUmask)

C8_Witness ==
  /\ Returned /\ runs = 1
  /\ infolist = <<[filename |-> Name_file, external_attr |-> Attr(S_IFREG + \o744, 0)],
                  [filename |-> Name_backslash, external_attr |-> Attr(S_IFREG + \o744, 0)]>>
  /\ chmodded = {Name_file}
  /\ Cardinality(doneFs) = 3
  /\ callUmask = \o077

\* C9: expand is idempotent: with the caller leaving the umask alone, a
\* further call on the same archive, into the destination as the call before
\* left it or emptied again, leaves the same entries, contents and modes as
\* the call before.
C9_ExpandIdempotent ==
  (Returned /\ runs >= 2 /\ ~callerTouched) => doneFs = prevFs

C9_Witness ==
  /\ Returned /\ runs >= 2 /\ ~callerTouched
  /\ fs = doneFs /\ doneFs = prevFs
  /\ chmodded # {}
  /\ \E e \in doneFs : e.kind = "file" /\ e.name \notin chmodded
  /\ \E e \in doneFs : e.kind = "dir"
  /\ callUmask # 0

\* no two members of the archive have the same name
DistinctNames ==
  \A a, b \in 1..Len(infolist) :
    a # b => infolist[a].filename # infolist[b].filename

\* C10 as stated: the mask is read exactly once in a call, however many
\* members carry an execute bit (here: of an archive of distinct names with
\* at least one such member).
C10_AsStated ==
  (Returned /\ DistinctNames /\ chmodded # {}) => Len(maskLog) = 1

\* C10 amended: the mask is read once per member expand's rule selects (not at
\* all when there is none), each read being os.umask(0) followed by
\* os.umask(mask): the mask is 0 in between and back at its entry value
\* afterwards, so every read of the call returns the mask of the call's entry.
C10_UmaskReadPerSelectedMember ==
  /\ Returned =>
       /\ Len(maskLog) = Cardinality(Selected)
       /\ umaskCalls = 2 * Len(maskLog)
  /\ pc \in {"loop", "chmod"} => umask = callUmask
  /\ pc = "umask_set" => (umask = 0 /\ mask = callUmask)
  /\ \A k \in 1..Len(maskLog) : maskLog[k] = callUmask

C10_Witness ==
  /\ Returned /\ Len(maskLog) = 2 /\ Cardinality(chmodded) = 2
  /\ callUmask = \o022 /\ umask = \o022 /\ umaskCalls = 4

=============================================================================
